---- MODULE Spec2Model ----
(***************************************************************************)
(* Character Memory Manager (SillyTavern extension).                       *)
(*                                                                         *)
(* The model follows src/index.js (trigger policy and summarization        *)
(* cycle), src/summarization-service.js (summarizer) and the memory        *)
(* manager module src/unnamed/part_001 (novelty detection and notes        *)
(* update), with the date helper of src/script.js.                         *)
(*                                                                         *)
(* Text is a sequence of one-character strings, so that trimming,          *)
(* splitting, case folding and substring search are computed.              *)
(***************************************************************************)
EXTENDS Integers, Sequences, FiniteSets, TLC

----------------------------------------------------------------------------
(* Bounds of the model. *)

\* largest threshold the message-count input is given
MaxThreshold == 2
\* messageCounter is not incremented beyond this value
MaxCounter == 3

----------------------------------------------------------------------------
(* Text helpers: JavaScript string operations on sequences of characters. *)

\* String.prototype.trim / the regex class \s, on the characters the model uses
IsSpace(c) == c \in {" ", "\n", "\t"}

RECURSIVE TrimLeft(_)
TrimLeft(s) ==
    IF s = <<>> THEN <<>>
    ELSE IF IsSpace(Head(s)) THEN TrimLeft(Tail(s)) ELSE s

RECURSIVE TrimRight(_)
TrimRight(s) ==
    IF s = <<>> THEN <<>>
    ELSE IF IsSpace(s[Len(s)]) THEN TrimRight(SubSeq(s, 1, Len(s) - 1)) ELSE s

Trim(s) == TrimRight(TrimLeft(s))

\* String.prototype.toLowerCase, one character
LowerChar(c) ==
    CASE c = "A" -> "a" [] c = "B" -> "b" [] c = "C" -> "c" [] c = "D" -> "d"
      [] c = "E" -> "e" [] c = "F" -> "f" [] c = "G" -> "g" [] c = "H" -> "h"
      [] c = "I" -> "i" [] c = "J" -> "j" [] c = "K" -> "k" [] c = "L" -> "l"
      [] c = "M" -> "m" [] c = "N" -> "n" [] c = "O" -> "o" [] c = "P" -> "p"
      [] c = "Q" -> "q" [] c = "R" -> "r" [] c = "S" -> "s" [] c = "T" -> "t"
      [] c = "U" -> "u" [] c = "V" -> "v" [] c = "W" -> "w" [] c = "X" -> "x"
      [] c = "Y" -> "y" [] c = "Z" -> "z" [] OTHER -> c

ToLowerCase(s) == [i \in 1..Len(s) |-> LowerChar(s[i])]

\* String.prototype.includes: needle occurs in hay (the empty needle always does)
Includes(hay, needle) ==
    \E i \in 0..(Len(hay) - Len(needle)) :
        \A j \in 1..Len(needle) : hay[i + j] = needle[j]

\* String.prototype.substring(0, end): a negative end counts as 0
Substring0(s, end) ==
    SubSeq(s, 1, IF end < 0 THEN 0 ELSE IF end > Len(s) THEN Len(s) ELSE end)

\* number of leading characters of s that satisfy \s
RECURSIVE SpaceRun(_)
SpaceRun(s) ==
    IF s = <<>> \/ ~IsSpace(Head(s)) THEN 0 ELSE 1 + SpaceRun(Tail(s))

\* number of leading newlines of s
RECURSIVE NewlineRun(_)
NewlineRun(s) ==
    IF s = <<>> \/ Head(s) # "\n" THEN 0 ELSE 1 + NewlineRun(Tail(s))

\* length of the match of /\.\s+|\n+/ at the start of s, 0 when there is none
SeparatorAt(s) ==
    IF s = <<>> THEN 0
    ELSE IF Head(s) = "." /\ SpaceRun(Tail(s)) > 0 THEN 1 + SpaceRun(Tail(s))
    ELSE NewlineRun(s)

\* summary.split(/\.\s+|\n+/): cur is the item being collected
RECURSIVE SplitFrom(_, _)
SplitFrom(s, cur) ==
    IF s = <<>> THEN <<cur>>
    ELSE IF SeparatorAt(s) > 0
         THEN <<cur>> \o SplitFrom(SubSeq(s, SeparatorAt(s) + 1, Len(s)), <<>>)
         ELSE SplitFrom(Tail(s), Append(cur, Head(s)))

SplitSentences(s) == SplitFrom(s, <<>>)

\* decimal digit of n in 0..9
Digit(n) ==
    CASE n = 0 -> "0" [] n = 1 -> "1" [] n = 2 -> "2" [] n = 3 -> "3"
      [] n = 4 -> "4" [] n = 5 -> "5" [] n = 6 -> "6" [] n = 7 -> "7"
      [] n = 8 -> "8" [] n = 9 -> "9"

\* Number.prototype.toString for n >= 0
RECURSIVE NumToString(_)
NumToString(n) ==
    IF n < 10 THEN <<Digit(n)>> ELSE Append(NumToString(n \div 10), Digit(n % 10))

\* toString().padStart(2, '0')
PadStart2(n) == IF n < 10 THEN <<"0">> \o NumToString(n) ELSE NumToString(n)

\* formatDate of src/script.js: MM/DD/YYYY HH:MM
formatDate(date) ==
    PadStart2(date.month) \o <<"/">> \o PadStart2(date.day) \o <<"/">>
    \o NumToString(date.year) \o <<" ">>
    \o PadStart2(date.hours) \o <<":">> \o PadStart2(date.minutes)

----------------------------------------------------------------------------
(* Novelty detection, memory-manager module. *)

\* minimal length of a sentence that is considered
MinSentenceLength == 10
\* number of trailing characters dropped for the "very similar" check
SimilarSuffix == 5

HeaderOpen ==
    <<"\n", "\n", "-", "-", "-", " ", "M", "e", "m", "o", "r", "y", " ",
      "U", "p", "d", "a", "t", "e", " ", "(">>
HeaderClose == <<")", " ", "-", "-", "-", "\n">>
\* the bullet character U+2022 is written "*"
Bullet == <<"*", " ">>
LineEnd == <<".", "\n">>

\* the value null
Null == <<"null">>
\* the value undefined (a missing argument, a missing property)
Undefined == <<"undefined">>

\* mutant: the notes are searched without lower-casing
IsNewItemCaseSensitive(item, characterNotes) ==
    /\ ~Includes(characterNotes, Trim(item))
    /\ ~Includes(characterNotes, Substring0(Trim(item), Len(Trim(item)) - SimilarSuffix))

\* mutant: only the whole item is searched in the notes
IsNewItemExact(item, characterNotes) ==
    ~Includes(ToLowerCase(characterNotes), Trim(ToLowerCase(item)))

\* the item is not in the notes, nor is the item without its last five characters
IsNewItem(item, characterNotes) ==
    LET itemLower == Trim(ToLowerCase(item))
        notesLower == ToLowerCase(characterNotes)
    IN  /\ ~Includes(notesLower, itemLower)
        /\ ~Includes(notesLower, Substring0(itemLower, Len(itemLower) - SimilarSuffix))

IsMeaningful(item) == Len(Trim(item)) > MinSentenceLength

RECURSIVE BulletLines(_)
BulletLines(items) ==
    IF items = <<>> THEN <<>>
    ELSE Bullet \o Trim(Head(items)) \o LineEnd \o BulletLines(Tail(items))

NewItems(summary, characterNotes) ==
    LET summaryItems == SelectSeq(SplitSentences(summary), IsMeaningful)
        IsNew(item) == IsNewItem(item, characterNotes)
    IN  SelectSeq(summaryItems, IsNew)

\* mutant: the summary is not trimmed before it is tested
isNewInformationUntrimmed(summary, characterNotes, userPersona, date) ==
    IF summary = Undefined \/ summary = <<>> THEN Null
    ELSE IF characterNotes = Undefined \/ Len(Trim(characterNotes)) = 0 THEN summary
    ELSE IF NewItems(summary, characterNotes) = <<>> THEN Null
    ELSE HeaderOpen \o formatDate(date) \o HeaderClose
         \o BulletLines(NewItems(summary, characterNotes))

\* mutant: empty notes are compared like any other notes
isNewInformationAlwaysBlock(summary, characterNotes, userPersona, date) ==
    IF summary = Undefined \/ Len(Trim(summary)) = 0 THEN Null
    ELSE IF NewItems(summary, characterNotes) = <<>> THEN Null
    ELSE HeaderOpen \o formatDate(date) \o HeaderClose
         \o BulletLines(NewItems(summary, characterNotes))

\* mutant: an item found in the persona is not new either
isNewInformationWithPersona(summary, characterNotes, userPersona, date) ==
    LET NotInPersona(item) == ~Includes(ToLowerCase(userPersona), ToLowerCase(item))
        items == SelectSeq(NewItems(summary, characterNotes), NotInPersona)
    IN  IF summary = Undefined \/ Len(Trim(summary)) = 0 THEN Null
        ELSE IF characterNotes = Undefined \/ Len(Trim(characterNotes)) = 0 THEN summary
        ELSE IF items = <<>> THEN Null
        ELSE HeaderOpen \o formatDate(date) \o HeaderClose \o BulletLines(items)

isNewInformation(summary, characterNotes, userPersona, date) ==
    IF summary = Undefined \/ Len(Trim(summary)) = 0 THEN Null
    ELSE IF characterNotes = Undefined \/ Len(Trim(characterNotes)) = 0 THEN summary
    ELSE IF NewItems(summary, characterNotes) = <<>> THEN Null
    ELSE HeaderOpen \o formatDate(date) \o HeaderClose
         \o BulletLines(NewItems(summary, characterNotes))

----------------------------------------------------------------------------
(* Inputs the environment supplies. *)

Rep(c, n) == [i \in 1..n |-> c]

\* sentences of eleven characters, one more than MinSentenceLength
SentenceA == Rep("a", MinSentenceLength + 1)
SentenceB == <<"B">> \o Rep("b", MinSentenceLength)

\* summaries the model returns: blank, two sentences
SummaryInputs == { <<" ">>, SentenceA \o <<".", " ">> \o SentenceB }

\* SentenceA in capitals; SentenceA with five more characters; a sentence of
\* exactly MinSentenceLength characters; a short fragment
SentenceUpperA == Rep("A", MinSentenceLength + 1)
SentenceC == SentenceA \o Rep("c", SimilarSuffix)
SentenceT == Rep("t", MinSentenceLength)
Fragment == <<"h", "i">>

\* the summaries isNewInformation is applied to: missing, empty, blank, one
\* sentence, sentences separated by ". " and by newlines
NoveltySummaries ==
    { Undefined, <<>>, <<" ">>, <<" ", "\n", "\t">>,
      SentenceA, SentenceUpperA \o <<".">>, SentenceT, SentenceC \o <<".", " ">>,
      SentenceA \o <<".", " ">> \o SentenceB,
      <<" ">> \o SentenceB \o <<"\n", "\n">> \o Fragment \o <<"\n">> \o SentenceC }

\* the notes it is applied to: empty, blank, with SentenceA, with SentenceA in
\* capitals and SentenceB, without any of the sentences
NoveltyNotes ==
    { <<>>, <<" ", "\n">>, SentenceA \o <<".">>,
      <<"x", " ">> \o SentenceUpperA \o <<".", " ">> \o SentenceB \o <<".">>,
      <<"x", "y", "z">> }

\* context.persona_description || ""
PersonaInputs == { <<>>, SentenceB }

\* values of new Date() for the calls
CallDates ==
    { [month |-> 1, day |-> 22, year |-> 2024, hours |-> 3, minutes |-> 4],
      [month |-> 12, day |-> 5, year |-> 2025, hours |-> 23, minutes |-> 59] }

\* values of new Date()
DateInputs == { [month |-> 1, day |-> 22, year |-> 2024, hours |-> 3, minutes |-> 4] }

\* values given to the message-count input
ThresholdInputs == 0..MaxThreshold

\* getContext().characterId: undefined, the number 0, or a string holding an index
CharacterIdInputs ==
    { [type |-> "undefined", index |-> 0], [type |-> "number", index |-> 0] }
    \cup { [type |-> "string", index |-> i] : i \in 0..1 }

\* values given to the endpoint input
EndpointInputs == {"", "https://api.example.com/v1/chat/completions"}

\* getContext().chat.length
ChatInputs == 0..1

\* getContext(): no chat is open and no character is selected, or a chat is open
ContextInputs ==
    { [chat |-> 0, characterId |-> [type |-> "undefined", index |-> 0]] }
    \cup { [chat |-> c, characterId |-> id] :
             c \in ChatInputs \ {0}, id \in CharacterIdInputs }

\* the host's characters array at start: avatar and notes of each record
\* (characterId "0" matches the avatar of the first)
InitialCharacters ==
    [i \in 0..2 |->
        CASE i = 0 -> [avatar |-> "0", notes |-> SentenceA \o <<".">>]
          [] i = 1 -> [avatar |-> "2", notes |-> SentenceA \o <<".">>]
          [] i = 2 -> [avatar |-> "x.png", notes |-> <<>>]]
CharacterIndexes == DOMAIN InitialCharacters

\* String(characterId): the key of characters[characterId], the operand of avatar ===
IdKey(id) == IF id.type = "undefined" THEN "undefined" ELSE NumToString(id.index)[1]

\* !characterId
IdFalsy(id) == id.type = "undefined" \/ (id.type = "number" /\ id.index = 0)

VARIABLES
    messageCounter,     \* let messageCounter
    processingMemory,   \* let processingMemory
    settings,           \* extension_settings[extensionName]
    characters,         \* the host's characters array: notes in memory
    persistedNotes,     \* the notes of each character file
    pc,                 \* where the cycle in flight is suspended
    cycle,              \* the locals of the cycle in flight
    out,                \* what the last step showed, returned and ended
    pristine,           \* so far: only message-sent events, enabled, chat non-empty
    sentEvents,         \* number of message-sent events while pristine
    cyclesStarted,      \* number of cycles started while pristine
    call                \* a function applied on its own: its arguments and result

vars == <<messageCounter, processingMemory, settings, characters, persistedNotes,
          pc, cycle, out, pristine, sentEvents, cyclesStarted, call>>

\* no function has been applied on its own
NoCall == [fn |-> "none"]

NoCycle == [owner |-> "none", path |-> "none",
            characterId |-> [type |-> "undefined", index |-> 0],
            summarized |-> FALSE, novel |-> FALSE, wrote |-> FALSE, target |-> -1]

\* shown: the notifications displayed; returned: the command's status string;
\* startedCycle: the returning command had started the cycle it awaited;
\* ended: how a cycle ended; updateReturned: what updateCharacterNotes returned;
\* raised: the message of the error raised in the step, "" when there was none;
\* requests: the requests the summarizeChat call that settled had issued
NoOutput == [shown |-> <<>>, returned |-> "none", startedCycle |-> FALSE,
             ended |-> "none", updateReturned |-> "none", raised |-> "",
             requests |-> <<>>]

\* loadSettings: the saved settings over the defaults
Init ==
    /\ messageCounter = 0
    /\ processingMemory = FALSE
    /\ \E en \in BOOLEAN, t \in 1..MaxThreshold :
         settings = [enabled |-> en, messagesBeforeSummarize |-> t,
                     showNotifications |-> TRUE, useSeparateModel |-> FALSE,
                     separateModelEndpoint |-> ""]
    /\ characters = InitialCharacters
    /\ persistedNotes = [i \in CharacterIndexes |-> InitialCharacters[i].notes]
    /\ pc = "idle"
    /\ cycle = NoCycle
    /\ out = NoOutput
    /\ pristine = settings.enabled
    /\ sentEvents = 0
    /\ cyclesStarted = 0
    /\ call = NoCall

----------------------------------------------------------------------------
(* Summarizer, src/summarization-service.js. *)

\* the payload shapes of an OK answer: choices[0].message.content,
\* choices[0].text, output, response, text
PayloadShapes == {"message", "choiceText", "output", "response", "text"}

\* what the external endpoint answers: fetch rejects, a status that is not OK, a
\* body that is not JSON, a payload of no known shape, a payload of a known shape
ExternalResponses ==
    { [kind |-> k, text |-> <<>>] : k \in {"reject", "httpError", "badJson", "other"} }
    \cup { [kind |-> k, text |-> t] : k \in PayloadShapes, t \in SummaryInputs }

\* what the host answers: generateQuietPrompt, or the popup when it is missing
HostResponses ==
    { [kind |-> k, text |-> <<>>] : k \in {"popupReject", "generationThrows"} }
    \cup { [kind |-> k, text |-> t] :
             k \in {"popup", "generation"}, t \in SummaryInputs }

Returned(text) == [threw |-> FALSE, value |-> text, message |-> ""]
Threw(message) == [threw |-> TRUE, value |-> <<>>, message |-> message]
\* catch (error) { console.error(...); return ''; }
Swallowed(message) == [threw |-> FALSE, value |-> <<>>, message |-> message]

callExternalModel(resp) ==
    CASE resp.kind = "reject" -> Threw("Failed to fetch")
      [] resp.kind = "httpError" -> Threw("API error")
      [] resp.kind = "badJson" -> Threw("Unexpected token")
      [] resp.kind = "message" -> Returned(resp.text)
      [] resp.kind = "choiceText" /\ resp.text # <<>> -> Returned(resp.text)
      [] OTHER -> Threw("Unexpected API response format")

\* every failure of the host model is swallowed and '' is returned
callCurrentModel(resp) ==
    CASE resp.kind \in {"popup", "generation"} -> Returned(resp.text)
      [] resp.kind = "popupReject" -> Swallowed("popup rejected")
      [] OTHER -> Swallowed("generation failed")

\* the model summarizeChat calls: useSeparateModel && modelEndpoint
SummarizePath ==
    IF settings.useSeparateModel /\ settings.separateModelEndpoint # ""
    THEN "external" ELSE "current"

ResponsesOf(path) == IF path = "external" THEN ExternalResponses ELSE HostResponses

summarizeChat(path, resp) ==
    IF path = "external" THEN callExternalModel(resp) ELSE callCurrentModel(resp)

\* mutant: a failed request to the endpoint is followed by one to the host model
RequestsWithFallback(path, resp) ==
    IF path = "external"
    THEN IF callExternalModel(resp).threw
         THEN <<"fetch", "generateQuietPrompt">> ELSE <<"fetch">>
    ELSE <<"generateQuietPrompt">>

\* the requests one summarizeChat call issues: fetch to the endpoint, or the
\* host's generateQuietPrompt, or callPopup where the host has no such function
RequestsOf(path, resp) ==
    IF path = "external" THEN <<"fetch">>
    ELSE IF resp.kind \in {"popup", "popupReject"} THEN <<"callPopup">>
    ELSE <<"generateQuietPrompt">>

----------------------------------------------------------------------------
(* Notifications, src/index.js showNotification. *)

Notice(text) == [text |-> text, detail |-> "", isError |-> FALSE]
Failure(message) ==
    [text |-> "Failed to update character memories: ", detail |-> message,
     isError |-> TRUE]

UpdatingNotice == Notice("Updating character memories...")
SuccessNotice == Notice("Character memories updated with new information!")
NoNewNotice == Notice("No new information to add to character memories.")

\* if (settings.showNotifications) showNotification(notice)
Shown(notice) == IF settings.showNotifications THEN <<notice>> ELSE <<>>

----------------------------------------------------------------------------
(* Trigger policy and cycle, src/index.js checkAndUpdateMemories. *)

\* mutant: the guard forgets processingMemory
GuardWithoutProcessingFlag == ~settings.enabled

\* the guard at the head of checkAndUpdateMemories
AlreadyRunningOrDisabled == processingMemory \/ ~settings.enabled

\* !context || !context.chat || !context.chat.length
NoChat(chat) == chat = 0

\* mutant: the comparison is strict
ThresholdExceeded(counter) == counter > settings.messagesBeforeSummarize

\* messageCounter >= settings.messagesBeforeSummarize
ThresholdReached(counter) == counter >= settings.messagesBeforeSummarize

\* mutant: messageCounter--
Decremented(counter) == counter - 1

\* messageCounter++
Incremented(counter) == counter + 1

TriggeredText == "Memory update process triggered."
DisabledText == "Character Memory Manager is disabled. Enable it in the extensions settings first."

\* the command's caller gets its string at once unless it awaits a cycle
ReturnAtOnce(owner) ==
    out' = IF owner = "command"
           THEN [NoOutput EXCEPT !.returned = TriggeredText] ELSE NoOutput

\* checkAndUpdateMemories up to its first await; counter is messageCounter on entry,
\* chat and id are what getContext() returns
checkAndUpdateMemories(owner, counter, chat, id) ==
    IF AlreadyRunningOrDisabled \/ NoChat(chat)
    THEN /\ messageCounter' = counter
         /\ ReturnAtOnce(owner)
         /\ UNCHANGED <<processingMemory, pc, cycle>>
    ELSE IF ThresholdReached(Incremented(counter))
    THEN /\ counter < MaxCounter
         /\ messageCounter' = Incremented(counter)
         /\ processingMemory' = TRUE
         /\ out' = [NoOutput EXCEPT !.shown = Shown(UpdatingNotice)]
         /\ pc' = "summarizing"
         /\ cycle' = [NoCycle EXCEPT !.owner = owner, !.path = SummarizePath,
                                     !.characterId = id]
    ELSE /\ counter < MaxCounter
         /\ messageCounter' = Incremented(counter)
         /\ ReturnAtOnce(owner)
         /\ UNCHANGED <<processingMemory, pc, cycle>>

Saturated(n) == IF n < MaxCounter THEN n + 1 ELSE n

\* the history the threshold property is about
Unspoiled(chat) == pristine /\ settings.enabled /\ chat > 0
Spoil == pristine' = FALSE /\ sentEvents' = 0 /\ cyclesStarted' = 0

\* eventSource.on(event_types.MESSAGE_SENT, ...)
MessageSentWith(chat, id) ==
    /\ IF settings.enabled
       THEN checkAndUpdateMemories("message", messageCounter, chat, id)
       ELSE /\ out' = NoOutput
            /\ UNCHANGED <<messageCounter, processingMemory, pc, cycle>>
    /\ IF Unspoiled(chat)
       THEN /\ pristine' = TRUE
            /\ sentEvents' = Saturated(sentEvents)
            /\ cyclesStarted' = IF pc = "idle" /\ pc' # "idle"
                                THEN Saturated(cyclesStarted) ELSE cyclesStarted
       ELSE Spoil
    /\ UNCHANGED <<settings, characters, persistedNotes, call>>

MessageSent ==
    \E context \in ContextInputs : MessageSentWith(context.chat, context.characterId)

\* mutant: the command does not set the counter to the threshold
MemoryUpdateKeepsCounter(chat, id) ==
    /\ IF ~settings.enabled
       THEN /\ out' = [NoOutput EXCEPT !.returned = DisabledText]
            /\ UNCHANGED <<messageCounter, processingMemory, pc, cycle>>
       ELSE checkAndUpdateMemories("command", messageCounter, chat, id)
    /\ Spoil
    /\ UNCHANGED <<settings, characters, persistedNotes, call>>

\* mutant: the command does not look at settings.enabled
MemoryUpdateUnchecked(chat, id) ==
    /\ checkAndUpdateMemories("command", settings.messagesBeforeSummarize, chat, id)
    /\ Spoil
    /\ UNCHANGED <<settings, characters, persistedNotes, call>>

\* registerSlashCommand('memoryupdate', ...)
MemoryUpdateWith(chat, id) ==
    /\ IF ~settings.enabled
       THEN /\ out' = [NoOutput EXCEPT !.returned = DisabledText]
            /\ UNCHANGED <<messageCounter, processingMemory, pc, cycle>>
       ELSE checkAndUpdateMemories("command", settings.messagesBeforeSummarize, chat, id)
    /\ Spoil
    /\ UNCHANGED <<settings, characters, persistedNotes, call>>

MemoryUpdate ==
    \E context \in ContextInputs : MemoryUpdateWith(context.chat, context.characterId)

----------------------------------------------------------------------------
(* Notes update, memory-manager module updateCharacterNotes. *)

\* context.characters[context.characterId]?.data?.character_notes || ""
ReadNotes(id) ==
    IF id.type # "undefined" /\ id.index \in CharacterIndexes
    THEN characters[id.index].notes ELSE <<>>

\* characters.find(char => char.avatar === characterId): its index, -1 for none
FindCharacter(id) ==
    LET found == { i \in CharacterIndexes :
                     id.type = "string" /\ characters[i].avatar = IdKey(id) }
    IN  IF found = {} THEN -1 ELSE CHOOSE i \in found : \A j \in found : i <= j

\* mutant: the test is newInformation !== undefined
NotUndefined(text) == TRUE

\* a string that is neither null nor empty
Truthy(text) == text # Null /\ text # <<>>

\* mutant: the notes are trimmed before the block is added
UpdatedNotesTrimmed(currentNotes, newInformation) == Trim(currentNotes) \o newInformation

\* mutant: the block takes the place of the notes
UpdatedNotesOverwritten(currentNotes, newInformation) == newInformation

\* currentNotes ? currentNotes + newInformation : newInformation
UpdatedNotes(currentNotes, newInformation) ==
    IF currentNotes # <<>> THEN currentNotes \o newInformation ELSE newInformation

\* the record updateCharacterNotes writes, -1 when it returns false before writing
UpdateTarget(id, newInformation) ==
    IF IdFalsy(id) \/ ~Truthy(newInformation) THEN -1 ELSE FindCharacter(id)

\* what updateCharacter's await ends with
SaveOutcomes == {"saved", "popupClosed", "rejected"}

----------------------------------------------------------------------------
(* The rest of the cycle: what follows each await of checkAndUpdateMemories. *)

\* mutant: the guard is released in the catch block only
ReleasedOnFailureOnly(ended) == ended # "failed"

\* processingMemory after the finally block
ReleasedGuard(ended) == FALSE

\* messageCounter after the cycle: reset where the try block ran to its end
CounterAfter(ended) == IF ended = "failed" THEN messageCounter ELSE 0

\* the notification after updateCharacterNotes has returned
AfterUpdateNotice(returned) == SuccessNotice

\* the tail of the cycle: notification, counter, finally; the awaiting command
\* then returns its status string
EndCycle(ended, notice, returned, error, requests) ==
    /\ messageCounter' = CounterAfter(ended)
    /\ processingMemory' = ReleasedGuard(ended)
    /\ pc' = "idle"
    /\ cycle' = NoCycle
    /\ out' = [shown |-> Shown(notice),
               returned |-> IF cycle.owner = "command" THEN TriggeredText ELSE "none",
               startedCycle |-> cycle.owner = "command",
               ended |-> ended,
               updateReturned |-> returned,
               raised |-> error,
               requests |-> requests]

\* summarizeChat settles; novelty check; updateCharacterNotes up to its await
SummarizeSettlesWith(resp, date) ==
    /\ pc = "summarizing"
    /\ LET result == summarizeChat(cycle.path, resp)
           characterNotes == ReadNotes(cycle.characterId)
           newInformation == isNewInformation(result.value, characterNotes, <<>>, date)
           target == UpdateTarget(cycle.characterId, newInformation)
           requests == RequestsOf(cycle.path, resp)
       IN  IF result.threw
           THEN /\ EndCycle("failed", Failure(result.message), "none", result.message, requests)
                /\ UNCHANGED characters
           ELSE IF ~Truthy(newInformation)
           THEN /\ EndCycle("nonew", NoNewNotice, "none", result.message, requests)
                /\ UNCHANGED characters
           ELSE IF target = -1
           THEN /\ EndCycle("updated", AfterUpdateNotice(FALSE), "false", result.message, requests)
                /\ UNCHANGED characters
           ELSE /\ characters' =
                     [characters EXCEPT ![target].notes =
                          UpdatedNotes(characterNotes, newInformation)]
                /\ pc' = "saving"
                /\ cycle' = [cycle EXCEPT !.summarized = ~result.threw,
                                          !.novel = newInformation # Null,
                                          !.wrote = TRUE, !.target = target]
                /\ out' = [NoOutput EXCEPT !.requests = requests]
                /\ UNCHANGED <<messageCounter, processingMemory>>
    /\ UNCHANGED <<settings, persistedNotes, pristine, sentEvents, cyclesStarted, call>>

SummarizeSettles ==
    \E resp \in ResponsesOf(cycle.path), date \in DateInputs :
        SummarizeSettlesWith(resp, date)

\* updateCharacter settles; updateCharacterNotes returns; the cycle ends
SaveSettlesWith(save) ==
    /\ pc = "saving"
    /\ persistedNotes' =
         IF save = "saved"
         THEN [persistedNotes EXCEPT ![cycle.target] = characters[cycle.target].notes]
         ELSE persistedNotes
    /\ EndCycle("updated", AfterUpdateNotice(save # "rejected"),
                IF save = "rejected" THEN "false" ELSE "true",
                IF save = "rejected" THEN "save rejected" ELSE "", <<>>)
    /\ UNCHANGED <<settings, characters, pristine, sentEvents, cyclesStarted, call>>

SaveSettles == \E save \in SaveOutcomes : SaveSettlesWith(save)

----------------------------------------------------------------------------
(* Settings handlers of src/index.js. *)

HostVars == <<characters, persistedNotes>>
CycleVars == <<messageCounter, processingMemory, pc, cycle>>
History == <<pristine, sentEvents, cyclesStarted>>

\* mutant: switching the extension off or on drops the cycle in flight
SetEnabledCancels ==
    /\ settings' = [settings EXCEPT !.enabled = ~settings.enabled]
    /\ out' = NoOutput
    /\ Spoil
    /\ pc' = "idle" /\ cycle' = NoCycle /\ processingMemory' = FALSE
    /\ UNCHANGED <<HostVars, messageCounter, call>>

\* $(document).on('click', '#memory-manager-enabled', ...)
SetEnabled ==
    /\ settings' = [settings EXCEPT !.enabled = ~settings.enabled]
    /\ out' = NoOutput
    /\ Spoil
    /\ UNCHANGED <<HostVars, CycleVars, call>>

\* $(document).on('change', '#memory-manager-message-count', ...)
SetMessageCount ==
    /\ \E value \in ThresholdInputs :
         settings' = [settings EXCEPT !.messagesBeforeSummarize = value]
    /\ out' = NoOutput
    /\ Spoil
    /\ UNCHANGED <<HostVars, CycleVars, call>>

\* $(document).on('click', '#memory-manager-notifications', ...)
SetNotifications ==
    /\ settings' = [settings EXCEPT !.showNotifications = ~settings.showNotifications]
    /\ out' = NoOutput
    /\ UNCHANGED <<HostVars, CycleVars, History, call>>

\* $(document).on('click', '#memory-manager-separate-model', ...)
SetSeparateModel ==
    /\ settings' = [settings EXCEPT !.useSeparateModel = ~settings.useSeparateModel]
    /\ out' = NoOutput
    /\ UNCHANGED <<HostVars, CycleVars, History, call>>

\* $(document).on('input', '#memory-manager-model-endpoint', ...)
SetEndpoint ==
    /\ \E url \in EndpointInputs :
         settings' = [settings EXCEPT !.separateModelEndpoint = url]
    /\ out' = NoOutput
    /\ UNCHANGED <<HostVars, CycleVars, History, call>>

Next ==
    \/ MessageSent
    \/ MemoryUpdate
    \/ SummarizeSettles
    \/ SaveSettles
    \/ SetEnabled
    \/ SetMessageCount
    \/ SetNotifications
    \/ SetSeparateModel
    \/ SetEndpoint

Spec == Init /\ [][Next]_vars

\* every awaited promise of a cycle settles: the model call and the save call
\* return or throw (a step of SummarizeSettles leaves the position "summarizing")
FairSpec ==
    /\ Spec
    /\ WF_vars(pc' \in {"idle", "saving"} /\ SummarizeSettles)
    /\ WF_vars(SaveSettles)

----------------------------------------------------------------------------
(* Properties. *)

\* a trigger: the message-sent event or the memoryupdate command
Trigger == MessageSent \/ MemoryUpdate

Threshold == settings.messagesBeforeSummarize

\* C1: at most one cycle is in flight: a trigger that arrives while
\* processingMemory is true (the cycle awaits the model or the save) starts no
\* second cycle and leaves the cycle in flight as it is.
C1_SingleCycleInFlight ==
    [][(processingMemory /\ Trigger) =>
          (UNCHANGED <<pc, cycle, processingMemory>> /\ out'.shown = <<>>)]_vars

\* a command arrived while the cycle awaited the save, and was dropped
C1_Witness ==
    pc = "saving" /\ out.returned = TriggeredText /\ ~out.startedCycle

\* C2: after every completed cycle (updated, nothing new, or failed)
\* messageCounter is 0.
C2_CounterZeroAfterCycle == out.ended # "none" => messageCounter = 0

\* C3: enabled, chat non-empty, threshold T >= 1 fixed, counter 0 at start, no
\* command: the first T-1 message-sent events start no cycle, and after the T-th
\* exactly one cycle has been started.
C3_ThresholdFiresOnce ==
    (pristine /\ Threshold >= 1) =>
        /\ sentEvents < Threshold => (cyclesStarted = 0 /\ pc = "idle")
        /\ sentEvents = Threshold => cyclesStarted = 1

\* the second of two message-sent events has started the cycle of threshold 2
C3_Witness ==
    /\ pristine /\ Threshold >= 2 /\ sentEvents = Threshold
    /\ cyclesStarted = 1 /\ pc = "summarizing"

\* C4: the guard is always released: once the awaited calls of a cycle settle,
\* processingMemory becomes false again, and no ended cycle leaves it true.
C4_GuardReleased ==
    /\ processingMemory ~> ~processingMemory
    /\ [](pc = "idle" => ~processingMemory)

\* a cycle has failed and the guard is free
C4_Witness == out.ended = "failed" /\ ~processingMemory /\ pc = "idle"

\* C5: a trigger that arrives while a cycle is in flight leaves messageCounter
\* and processingMemory as they were.
C5_DroppedTriggerIsNoOp ==
    [][(processingMemory /\ Trigger) =>
          UNCHANGED <<messageCounter, processingMemory>>]_vars

C7_DisabledIsInert ==
    [][(~settings.enabled /\ Trigger) =>
          UNCHANGED <<messageCounter, processingMemory, pc, cycle>>]_vars

\* the command was refused while the counter differed from the threshold
C7_Witness ==
    /\ ~settings.enabled /\ out.returned = DisabledText
    /\ messageCounter # Threshold /\ pc = "idle"

C9_WriteOnlyAfterSummaryAndNovelty ==
    [][/\ out'.ended \in {"failed", "nonew"} => UNCHANGED <<characters, persistedNotes>>
       /\ characters' # characters =>
            /\ pc = "summarizing"
            /\ \E resp \in ResponsesOf(cycle.path), date \in DateInputs :
                 LET result == summarizeChat(cycle.path, resp)
                     new == isNewInformation(result.value, ReadNotes(cycle.characterId),
                                             <<>>, date)
                 IN  /\ SummarizeSettlesWith(resp, date)
                     /\ ~result.threw /\ new # Null /\ new # <<>>
       /\ persistedNotes' # persistedNotes =>
            (pc = "saving" /\ cycle.wrote /\ cycle.summarized /\ cycle.novel)]_vars

\* the notes were written in memory and the save is awaited
C9_Witness == pc = "saving" /\ cycle.wrote /\ characters # InitialCharacters

\* C10: when updateCharacterNotes returns false the cycle shows a failure
\* notification and never the success notification.
C10_FailedUpdateIsReported ==
    out.updateReturned = "false" =>
        /\ \A i \in DOMAIN out.shown : out.shown[i] # SuccessNotice
        /\ settings.showNotifications => \E i \in DOMAIN out.shown : out.shown[i].isError

----------------------------------------------------------------------------
(* Prompt template, summarizeChat of src/summarization-service.js. *)

\* largest number of messages passed to summarizeChat
MaxMessages == 5

UserPlaceholder == <<"{", "{", "u", "s", "e", "r", "}", "}">>
CharPlaceholder == <<"{", "{", "c", "h", "a", "r", "}", "}">>
CountPlaceholder == <<"{", "{", "c", "o", "u", "n", "t", "}", "}">>

\* needle starts at position i of text
MatchesAt(text, i, needle) ==
    /\ i + Len(needle) - 1 <= Len(text)
    /\ \A j \in 1..Len(needle) : text[i + j - 1] = needle[j]

\* the replacement string of String.prototype.replace: $$ stands for $ and $&
\* for the matched text
RECURSIVE ExpandReplacement(_, _)
ExpandReplacement(replacement, matched) ==
    IF replacement = <<>> THEN <<>>
    ELSE IF MatchesAt(replacement, 1, <<"$", "$">>)
    THEN <<"$">> \o ExpandReplacement(SubSeq(replacement, 3, Len(replacement)), matched)
    ELSE IF MatchesAt(replacement, 1, <<"$", "&">>)
    THEN matched \o ExpandReplacement(SubSeq(replacement, 3, Len(replacement)), matched)
    ELSE <<Head(replacement)>> \o ExpandReplacement(Tail(replacement), matched)

\* text.replace(/needle/g, replacement): every match, from left to right
RECURSIVE ReplaceAll(_, _, _)
ReplaceAll(text, needle, replacement) ==
    IF text = <<>> THEN <<>>
    ELSE IF MatchesAt(text, 1, needle)
    THEN ExpandReplacement(replacement, needle)
         \o ReplaceAll(SubSeq(text, Len(needle) + 1, Len(text)), needle, replacement)
    ELSE <<Head(text)>> \o ReplaceAll(Tail(text), needle, replacement)

\* the system message: the three replace calls, one after the other
systemMessage(promptTemplate, characterName, userName, count) ==
    ReplaceAll(
        ReplaceAll(
            ReplaceAll(promptTemplate, CharPlaceholder, characterName),
            UserPlaceholder, userName),
        CountPlaceholder, NumToString(count))

\* "Summarize {{count}} msgs for {{user}} and {{char}}"
ExampleTemplate ==
    <<"S", "u", "m", "m", "a", "r", "i", "z", "e", " ", "{", "{", "c",
    "o", "u", "n", "t", "}", "}", " ", "m", "s", "g", "s", " ", "f", "o",
    "r", " ", "{", "{", "u", "s", "e", "r", "}", "}", " ", "a", "n", "d",
    " ", "{", "{", "c", "h", "a", "r", "}", "}">>

\* templates: the example, every placeholder twice, no placeholder, near misses
TemplateInputs ==
    { ExampleTemplate,
      UserPlaceholder \o UserPlaceholder \o <<" ">> \o CharPlaceholder \o <<"+">>
          \o CharPlaceholder \o CountPlaceholder \o <<"x">> \o CountPlaceholder,
      <<"S", "u", "m", ".">>,
      <<"{", "u", "s", "e", "r", "}", " ", "{", "{", "C", "h", "a", "r", "}", "}">> }

\* names: plain ones, one that is a placeholder, one with a $ pattern
NameInputs ==
    { <<"A", "l">>, <<"Z", "e", "e">>, UserPlaceholder, CountPlaceholder,
      <<"$", "&">>, <<"C", "a", "$", "$">> }

MessageCounts == 0..MaxMessages

----------------------------------------------------------------------------
(* The exported functions applied on their own. *)

\* one function is applied, once, and nothing else of the extension runs
CallFrame ==
    /\ call = NoCall
    /\ UNCHANGED <<messageCounter, processingMemory, settings, characters,
                  persistedNotes, pc, cycle, out, pristine, sentEvents, cyclesStarted>>

\* summarizeChat(messages, characterName, userName, promptTemplate,
\*               useSeparateModel, modelEndpoint, apiKey) and what the model answers
CallSummarizeChat ==
    /\ CallFrame
    /\ \E path \in {"external", "current"} : \E resp \in ResponsesOf(path) :
         call' = [fn |-> "summarizeChat", path |-> path, resp |-> resp,
                  result |-> summarizeChat(path, resp)]

\* callExternalModel(systemMessage, userMessage, modelEndpoint, apiKey)
CallExternalModel ==
    /\ CallFrame
    /\ \E resp \in ExternalResponses :
         call' = [fn |-> "callExternalModel", resp |-> resp,
                  result |-> callExternalModel(resp)]

\* summarizeChat up to the model call: the system message it builds
CallSystemMessage ==
    /\ CallFrame
    /\ \E template \in TemplateInputs, char \in NameInputs, user \in NameInputs,
          count \in MessageCounts :
         call' = [fn |-> "systemMessage", template |-> template,
                  characterName |-> char, userName |-> user, count |-> count,
                  result |-> systemMessage(template, char, user, count)]

\* no call of updateCharacterNotes
NoWrite == <<"no write">>

\* isNewInformation(summary, characterNotes, userPersona) and, as in the cycle,
\* the notes updateCharacterNotes then writes; again: what the next cycle gets
\* for the same summary and the written notes; others: what the same call
\* returns for each persona
CallIsNewInformation ==
    /\ CallFrame
    /\ \E summary \in NoveltySummaries, characterNotes \in NoveltyNotes,
          userPersona \in PersonaInputs, date \in CallDates :
         LET newInformation == isNewInformation(summary, characterNotes, userPersona, date)
         IN  call' = [fn |-> "isNewInformation", summary |-> summary,
                      characterNotes |-> characterNotes, userPersona |-> userPersona,
                      date |-> date, result |-> newInformation,
                      written |-> IF Truthy(newInformation)
                                  THEN UpdatedNotes(characterNotes, newInformation)
                                  ELSE NoWrite,
                      again |-> IF Truthy(newInformation)
                                THEN isNewInformation(
                                         summary,
                                         UpdatedNotes(characterNotes, newInformation),
                                         userPersona, date)
                                ELSE Null,
                      others |-> [persona \in PersonaInputs |->
                                     isNewInformation(summary, characterNotes,
                                                      persona, date)]]

\* the values of context.characterId the updater is applied to: those of the
\* cycle, the number 1 and the string "2"
UpdateIdInputs ==
    CharacterIdInputs
    \cup { [type |-> "number", index |-> 1], [type |-> "string", index |-> 2] }

\* the index of context.characters[context.characterId], -1 when there is none
ReadIndex(id) ==
    IF id.type # "undefined" /\ id.index \in CharacterIndexes THEN id.index ELSE -1

\* the values of newInformation: null, and what isNewInformation makes of a
\* summary and the notes the cycle has read
BlocksFor(id) ==
    {Null} \cup { isNewInformation(summary, ReadNotes(id), <<>>, date) :
                    summary \in SummaryInputs \cup {SentenceB}, date \in DateInputs }

\* what updateCharacterNotes returns
UpdateReturns(target, save) ==
    IF target = -1 \/ save = "rejected" THEN "false" ELSE "true"

\* the notes of the records in memory after updateCharacterNotes
MemoryAfter(target, updatedNotes) ==
    [i \in CharacterIndexes |->
        IF i = target THEN updatedNotes ELSE characters[i].notes]

\* the notes of the character files after updateCharacterNotes
PersistedAfter(target, updatedNotes, save) ==
    [i \in CharacterIndexes |->
        IF i = target /\ save = "saved" THEN updatedNotes ELSE persistedNotes[i]]

\* updateCharacterNotes(context.characterId, characterNotes, newInformation),
\* with the notes the cycle has read from context.characters[context.characterId]
CallUpdateCharacterNotes ==
    /\ CallFrame
    /\ \E id \in UpdateIdInputs, save \in SaveOutcomes :
         \E newInformation \in BlocksFor(id) :
            LET currentNotes == ReadNotes(id)
                target == UpdateTarget(id, newInformation)
                updatedNotes == UpdatedNotes(currentNotes, newInformation)
            IN  call' = [fn |-> "updateCharacterNotes", characterId |-> id,
                         currentNotes |-> currentNotes,
                         newInformation |-> newInformation, save |-> save,
                         read |-> ReadIndex(id), target |-> target,
                         returned |-> UpdateReturns(target, save),
                         memory |-> MemoryAfter(target, updatedNotes),
                         persisted |-> PersistedAfter(target, updatedNotes, save)]

----------------------------------------------------------------------------
(* The updater that fetches the record and saves it, the earlier
   updateCharacterNotes of the memory-manager module. *)

\* the records /api/characters/get answers with
FetchedRecords ==
    { [name |-> "Al", avatar |-> "al.png",
       data |-> [character_notes |-> <<>>, description |-> "tall"]],
      [name |-> "Zee", avatar |-> "0",
       data |-> [character_notes |-> SentenceA \o <<".">>, description |-> ""]] }

\* what the fetch of the record ends with: fetch rejects, a status that is not
\* OK, a body that is not JSON, a record without data, a record
FetchOutcomes ==
    { [kind |-> k, record |-> [name |-> "", avatar |-> ""]] :
        k \in {"reject", "notOk", "badJson"} }
    \cup { [kind |-> "noData", record |-> [name |-> "Al", avatar |-> "al.png"]] }
    \cup { [kind |-> "ok", record |-> r] : r \in FetchedRecords }

\* what the save request ends with
SaveResponses == {"ok", "notOk", "reject"}

\* window.getCurrentChatId() === characterId, or no such function
ChatIdOutcomes == {"same", "other", "missing"}

\* mutant: the record saved is made of the notes alone
SavedRecordOfNotes(record, updatedNotes) ==
    [name |-> "", avatar |-> "",
     data |-> [character_notes |-> updatedNotes, description |-> ""]]

\* characterData.data.character_notes = updatedNotes; JSON.stringify(characterData)
SavedRecord(record, updatedNotes) ==
    [record EXCEPT !.data.character_notes = updatedNotes]

\* mutant: the save request is issued whatever the fetch ended with
SavesAlways(fetched) == TRUE

\* the statements up to the save request ran without a throw
ReachesSave(fetched) == fetched.kind = "ok"

\* updateCharacterNotes(characterId, currentNotes, newInformation): the requests
\* it issues, the body of the save request, what it returns
updateCharacterNotesByFetch(fetched, currentNotes, newInformation, saveResponse, chatId) ==
    LET updatedNotes == currentNotes \o newInformation
    IN  IF ~ReachesSave(fetched)
        THEN [requests |-> <<"get">>, body |-> <<>>, returned |-> "false"]
        ELSE [requests |-> <<"get", "edit">>,
              body |-> <<SavedRecord(fetched.record, updatedNotes)>>,
              returned |-> IF saveResponse = "ok" /\ chatId # "missing"
                           THEN "true" ELSE "false"]

CallUpdateCharacterNotesByFetch ==
    /\ CallFrame
    /\ \E fetched \in FetchOutcomes, currentNotes \in {<<>>, SentenceA \o <<".">>},
          saveResponse \in SaveResponses, chatId \in ChatIdOutcomes :
         call' = [fn |-> "updateCharacterNotesByFetch", fetched |-> fetched,
                  currentNotes |-> currentNotes, newInformation |-> SentenceB,
                  saveResponse |-> saveResponse, chatId |-> chatId,
                  result |-> updateCharacterNotesByFetch(
                                 fetched, currentNotes, SentenceB, saveResponse, chatId)]

CallNext ==
    \/ CallSummarizeChat
    \/ CallExternalModel
    \/ CallSystemMessage
    \/ CallIsNewInformation
    \/ CallUpdateCharacterNotes
    \/ CallUpdateCharacterNotesByFetch

CallSpec == Init /\ [][CallNext]_vars

\* C11: every error raised during a cycle (by the model call or by the save) is
\* surfaced as exactly one failure notification that holds the error's message.
C11_ErrorSurfacedOnce ==
    (out.raised # "" /\ settings.showNotifications) => out.shown = <<Failure(out.raised)>>

\* the model call failed or was not available: the generation function is missing
\* (the popup stands in) or throws; the fetch rejects, the status is not OK, the
\* body is not JSON
ModelCallFailed(resp) ==
    resp.kind \in {"popup", "popupReject", "generationThrows",
                   "reject", "httpError", "badJson"}

\* C12: summarizeChat throws, and returns no value, whenever the model call
\* failed or was not available, on the host path and on the external path.
C12_SummarizeChatThrowsOnFailure ==
    (call.fn = "summarizeChat" /\ ModelCallFailed(call.resp)) => call.result.threw

\* C13: for an OK answer callExternalModel returns the text of each of the five
\* payload shapes, and throws for a payload of none of them.
C13_FivePayloadShapes ==
    call.fn = "callExternalModel" =>
        /\ call.resp.kind \in PayloadShapes => call.result = Returned(call.resp.text)
        /\ call.resp.kind = "other" => call.result.threw

\* the template with each placeholder standing in it replaced by its value
RECURSIVE Substituted(_, _, _, _)
Substituted(template, characterName, userName, count) ==
    IF template = <<>> THEN <<>>
    ELSE IF MatchesAt(template, 1, CharPlaceholder)
    THEN characterName \o Substituted(SubSeq(template, 9, Len(template)),
                                       characterName, userName, count)
    ELSE IF MatchesAt(template, 1, UserPlaceholder)
    THEN userName \o Substituted(SubSeq(template, 9, Len(template)),
                                  characterName, userName, count)
    ELSE IF MatchesAt(template, 1, CountPlaceholder)
    THEN NumToString(count) \o Substituted(SubSeq(template, 10, Len(template)),
                                            characterName, userName, count)
    ELSE <<Head(template)>> \o Substituted(Tail(template), characterName, userName, count)

\* C14: the system message is the template with every occurrence of {{user}},
\* {{char}} and {{count}} replaced by the user name, the character name and the
\* number of messages, and with all other text of the template unchanged.
C14_EveryPlaceholderReplaced ==
    call.fn = "systemMessage" =>
        call.result = Substituted(call.template, call.characterName,
                                  call.userName, call.count)

NoveltyCalled == call.fn = "isNewInformation"

\* every character of the text is white space
AllSpace(text) == \A i \in DOMAIN text : text[i] \in {" ", "\n", "\t"}

\* C16: for a summary that is missing, empty or all white space, whatever the
\* notes and the persona, isNewInformation returns null and nothing is written.
C16_BlankSummaryGivesNothing ==
    (NoveltyCalled /\ (call.summary = Undefined \/ AllSpace(call.summary))) =>
        (call.result = Null /\ call.written = NoWrite)

\* a summary of white space was compared with notes that are not empty
C16_Witness ==
    /\ NoveltyCalled /\ call.summary = <<" ", "\n", "\t">>
    /\ call.characterNotes = <<"x", "y", "z">> /\ call.result = Null

\* C17: when the notes are empty or all white space and the summary is not
\* empty, isNewInformation returns the whole summary, whatever the persona.
C17_EmptyNotesReturnSummary ==
    (/\ NoveltyCalled
     /\ AllSpace(call.characterNotes)
     /\ call.summary # Undefined /\ call.summary # <<>>) =>
        call.result = call.summary

\* C17 as amended: the same for a summary that has a character other than
\* white space.
C17_EmptyNotesReturnSummaryUnlessBlank ==
    (/\ NoveltyCalled
     /\ AllSpace(call.characterNotes)
     /\ call.summary # Undefined /\ ~AllSpace(call.summary)) =>
        call.result = call.summary

\* two sentences were compared with notes of white space, the persona holding
\* one of them
C17_Witness ==
    /\ NoveltyCalled
    /\ call.characterNotes = <<" ", "\n">>
    /\ call.summary = SentenceA \o <<".", " ">> \o SentenceB
    /\ call.userPersona = SentenceB
    /\ call.result = call.summary

\* the text the cycle appended to the notes
Appended == SubSeq(call.written, Len(call.characterNotes) + 1, Len(call.written))

\* "--- Memory Update (<timestamp>) ---"
HeaderLine(date) ==
    <<"-", "-", "-", " ", "M", "e", "m", "o", "r", "y", " ",
      "U", "p", "d", "a", "t", "e", " ", "(">>
    \o formatDate(date) \o <<")", " ", "-", "-", "-">>

\* the text begins with the header, after the two newlines of the block
BeginsWithHeader(text, date) ==
    \/ MatchesAt(text, 1, HeaderLine(date))
    \/ MatchesAt(text, 1, <<"\n", "\n">> \o HeaderLine(date))

\* C18: every text a cycle appends to the notes begins with the header
\* "--- Memory Update (<timestamp>) ---", whatever the summary and the notes,
\* empty notes included.
C18_AppendedTextBeginsWithHeader ==
    (NoveltyCalled /\ call.written # NoWrite) => BeginsWithHeader(Appended, call.date)

\* C19: when notes that are not empty contain the sentence S up to letter case
\* and the summary is S alone, isNewInformation returns nothing.
C19_KnownSentenceGivesNothing ==
    (/\ NoveltyCalled
     /\ call.summary # Undefined
     /\ call.characterNotes # <<>>
     /\ Includes(ToLowerCase(call.characterNotes), ToLowerCase(call.summary))) =>
        (call.result = Null /\ call.written = NoWrite)

\* a sentence in capitals was compared with notes holding it in small letters
C19_Witness ==
    /\ NoveltyCalled
    /\ call.summary = SentenceUpperA \o <<".">>
    /\ call.characterNotes = SentenceA \o <<".">>
    /\ call.result = Null

\* the candidate sentences of the summary: fragments above the minimal length
Candidates(summary) ==
    LET Long(item) == Len(Trim(item)) > MinSentenceLength
    IN  SelectSeq(SplitSentences(summary), Long)

\* the sentence is not a substring of the notes, up to letter case
Absent(item, notes) == ~Includes(ToLowerCase(notes), ToLowerCase(Trim(item)))

\* nor is the sentence without its last five characters
AbsentWithoutSuffix(item, notes) ==
    ~Includes(ToLowerCase(notes),
              SubSeq(ToLowerCase(Trim(item)), 1, Len(Trim(item)) - SimilarSuffix))

\* the sentence is a bullet of the block
IsBullet(item, block) == Includes(block, <<"\n", "*", " ">> \o Trim(item) \o <<".", "\n">>)

\* the summary and the notes of the call are texts with something in them
ComparedWithNotes ==
    /\ NoveltyCalled
    /\ call.summary # Undefined /\ ~AllSpace(call.summary)
    /\ ~AllSpace(call.characterNotes)

C21_WrittenIsNotesThenBlock ==
    (NoveltyCalled /\ call.written # NoWrite) =>
        /\ Len(call.written) = Len(call.characterNotes) + Len(call.result)
        /\ \A i \in DOMAIN call.characterNotes : call.written[i] = call.characterNotes[i]
        /\ \A i \in DOMAIN call.result :
               call.written[Len(call.characterNotes) + i] = call.result[i]

\* a summary was added to notes of white space
C21_Witness ==
    /\ NoveltyCalled
    /\ call.characterNotes = <<" ", "\n">>
    /\ call.summary = SentenceA
    /\ call.written = <<" ", "\n">> \o SentenceA

\* updateCharacterNotes has been applied
UpdateCalled == call.fn = "updateCharacterNotes"

\* the first text is the beginning of the second
IsPrefix(first, second) ==
    /\ Len(first) <= Len(second)
    /\ \A i \in DOMAIN first : first[i] = second[i]

\* C22: the notes are append-only: for every write of the updater, the notes the
\* host held in the written record just before the write are the beginning of
\* the notes written.
C22_NotesAppendOnly ==
    (UpdateCalled /\ call.target # -1) =>
        IsPrefix(characters[call.target].notes, call.memory[call.target])

\* an event that is not the settling of an awaited call
LaterEvent ==
    \/ MessageSent \/ MemoryUpdate
    \/ SetEnabled \/ SetMessageCount \/ SetNotifications
    \/ SetSeparateModel \/ SetEndpoint

\* C23: there is no cancellation: while a cycle awaits its summarization call or
\* its save, no message-sent event, memoryupdate command or settings change
\* (switching the extension off included) touches the cycle or the notes; the
\* cycle goes on from the summarization call to the novelty check and the
\* write, or to failure, and the awaited save can still settle.
C23_NoCancellation ==
    /\ [][(pc # "idle" /\ LaterEvent) =>
             UNCHANGED <<pc, cycle, processingMemory, characters, persistedNotes>>]_vars
    /\ (pc = "summarizing" ~> pc # "summarizing")
    /\ [](pc = "saving" => ENABLED SaveSettles)

\* the extension was switched off while a cycle was in flight, and the cycle has
\* written the notes all the same
C23_Witness ==
    /\ ~settings.enabled
    /\ out.ended = "updated" /\ out.updateReturned = "true"

\* the updater that fetches and saves has been applied
FetchAndSaveCalled == call.fn = "updateCharacterNotesByFetch"

\* C24: in the updater that fetches and saves, the save request is issued only
\* after the fetch of the record has succeeded, after the fetch request and
\* once, and the record it sends is the fetched record in every field but the
\* notes, which are currentNotes followed by newInformation.
C24_SaveAfterFetchKeepsRecord ==
    FetchAndSaveCalled =>
        LET requests == call.result.requests
            sent == { i \in DOMAIN requests : requests[i] = "edit" }
        IN  /\ requests[1] = "get"
            /\ call.fetched.kind \in {"reject", "notOk", "badJson"} => sent = {}
            /\ sent # {} =>
                  LET record == call.fetched.record
                      body == call.result.body[1]
                  IN  /\ sent = {2}
                      /\ call.fetched.kind = "ok"
                      /\ body.name = record.name
                      /\ body.avatar = record.avatar
                      /\ body.data.description = record.data.description
                      /\ body.data.character_notes = call.currentNotes \o call.newInformation

\* the record of Zee was fetched and saved with the notes overwritten
C24_Witness ==
    /\ FetchAndSaveCalled
    /\ call.fetched.kind = "ok" /\ call.fetched.record.name = "Zee"
    /\ call.currentNotes = <<>>
    /\ call.result.requests = <<"get", "edit">>
    /\ call.result.body[1].data.character_notes = SentenceB

\* C25: settings.messagesBeforeSummarize is an integer of at least 1 in every
\* reachable state, whatever is given to the message-count input.
C25_ThresholdAtLeastOne ==
    settings.messagesBeforeSummarize \in Nat \ {0}

\* a message-sent event or a memoryupdate command while the chat is empty or
\* there is no chat
TriggerWithoutChat ==
    \E context \in ContextInputs :
        /\ NoChat(context.chat)
        /\ \/ MessageSentWith(context.chat, context.characterId)
           \/ MemoryUpdateWith(context.chat, context.characterId)

\* C26: while the chat is empty or there is no chat, neither the message-sent
\* event nor the memoryupdate command changes messageCounter or starts a cycle.
C26_NoChatLeavesCounter ==
    [][TriggerWithoutChat => UNCHANGED <<messageCounter, processingMemory, pc, cycle>>]_vars

\* C27: whenever updateCharacterNotes returns false, the notes of every record
\* are the same as before the call, in memory and in the character files.
C27_FalseLeavesNotes ==
    (UpdateCalled /\ call.returned = "false") =>
        \A i \in CharacterIndexes :
            /\ call.memory[i] = characters[i].notes
            /\ call.persisted[i] = persistedNotes[i]

\* C28: novelty detection followed by the append is idempotent: when
\* isNewInformation returns a block and the block is added to the notes,
\* isNewInformation returns nothing for the same summary and the new notes.
C28_SecondCycleAddsNothing ==
    (NoveltyCalled /\ call.written # NoWrite) => call.again = Null

\* a block with two bullets was added, and the same summary then gave nothing
C28_Witness ==
    /\ NoveltyCalled
    /\ call.summary = SentenceA \o <<".", " ">> \o SentenceB
    /\ call.characterNotes = <<"x", "y", "z">>
    /\ IsBullet(SentenceA, call.result) /\ IsBullet(SentenceB, call.result)
    /\ call.written = call.characterNotes \o call.result
    /\ call.again = Null

\* C29: the record whose notes updateCharacterNotes writes is the record whose
\* notes the cycle has read, context.characters[context.characterId], for
\* every characterId for which that read found a record.
C29_WritesTheRecordRead ==
    (UpdateCalled /\ call.read # -1 /\ call.target # -1) => call.target = call.read

\* C30: in isNewInformation of the memory-manager module the persona has no
\* part in the result: calls that differ in userPersona alone return the same.
C30_PersonaHasNoPart ==
    NoveltyCalled => \A persona \in PersonaInputs : call.others[persona] = call.result

\* the persona held the sentence that is new, and the sentence is a bullet
C30_Witness ==
    /\ NoveltyCalled
    /\ call.userPersona = SentenceB
    /\ call.summary = SentenceA \o <<".", " ">> \o SentenceB
    /\ call.characterNotes = SentenceA \o <<".">>
    /\ IsBullet(SentenceB, call.result)
    /\ call.others[<<>>] = call.result
====
